---- MODULE Spec2Model ----
(***************************************************************************)
(* Model of the poker simulation in doxy-poker.c: the deck, the hand       *)
(* evaluator evaluate_hand, the comparator is_hand_better, the multi-way   *)
(* winner search find_winning_opponent and the Monte Carlo simulator       *)
(* calculate_win_probability.                                              *)
(*                                                                         *)
(* Arrays are functions over 0..n-1 so that indices are the C indices.     *)
(***************************************************************************)
EXTENDS Integers, Sequences, FiniteSets, TLC

\* ---------------------------------------------------------------------
\* Program constants (doxy-poker.c:12-18)
\* ---------------------------------------------------------------------
NUM_CARDS == 52
NUM_RANKS == 13
NUM_SUITS == 4
HAND_SIZE == 2
FLOP_SIZE == 3
TURN_RIVER_SIZE == 1

\* ---------------------------------------------------------------------
\* Bounds of the model
\* ---------------------------------------------------------------------
\* evaluator inputs are drawn from the cards of ranks 0..MaxRank, all suits
MaxRank == 4
\* number of trials of one simulator call (MONTE_CARLO_SIMULATIONS scaled down)
MaxTrials == 3
\* srand() seeds 0..MaxSeed
MaxSeed == 7
\* comparator inputs are drawn from the cards of deck index 0..MaxCmpCard
MaxCmpCard == 5

\* ---------------------------------------------------------------------
\* Cards
\* ---------------------------------------------------------------------
Card(r, s) == [rank |-> r, suit |-> s]

\* index of a card in the freshly initialised deck: rank * NUM_SUITS + suit
CardIndex(c) == c.rank * NUM_SUITS + c.suit

\* the card no array element has been assigned yet
NoCard == Card(-2, -2)

\* initialize_deck: deck[index] = (i, j) for index = i * NUM_SUITS + j
initialize_deck == [index \in 0..(NUM_CARDS - 1) |->
                      Card(index \div NUM_SUITS, index % NUM_SUITS)]

\* ---------------------------------------------------------------------
\* evaluate_hand
\* ---------------------------------------------------------------------
HandEvaluation(l, h, s) ==
    [combination_level |-> l, highest_card |-> h, second_highest_card |-> s]

\* all_cards: the hand followed by the first community_size community cards
AllCards(hand, community_cards, community_size) ==
    [i \in 0..(HAND_SIZE + community_size - 1) |->
        IF i < HAND_SIZE THEN hand[i] ELSE community_cards[i - HAND_SIZE]]

\* compare_cards: negative when a sorts before b (higher rank first)
compare_cards(a, b) == b.rank - a.rank

\* qsort(all_cards, n, sizeof(Card), compare_cards): the only element read
\* afterwards is all_cards[0], an element no other element sorts before
RECURSIVE SortedFirst(_, _, _, _)
SortedFirst(all_cards, n, i, best) ==
    IF i >= n THEN best
    ELSE SortedFirst(all_cards, n, i + 1,
                     IF compare_cards(all_cards[i], best) < 0
                     THEN all_cards[i] ELSE best)

RankCount(all_cards) ==
    [r \in 0..(NUM_RANKS - 1) |->
        Cardinality({i \in DOMAIN all_cards : all_cards[i].rank = r})]

SuitCount(all_cards) ==
    [s \in 0..(NUM_SUITS - 1) |->
        Cardinality({i \in DOMAIN all_cards : all_cards[i].suit = s})]

HasFlush_offbyone(suit_count) == \E i \in 0..(NUM_SUITS - 1) : suit_count[i] >= 4

\* lines 148-153: some suit holds five or more cards
HasFlush(suit_count) == \E i \in 0..(NUM_SUITS - 1) : suit_count[i] >= 5

\* lines 155-172: the scan over ranks 0..12. Returns the state of the locals
\* after the loop, with ret = TRUE when the loop returned (four of a kind).
RECURSIVE KindScan(_, _, _)
KindScan(rank_count, i, st) ==
    IF i >= NUM_RANKS THEN st
    ELSE IF rank_count[i] = 4
    THEN [st EXCEPT !.ret = TRUE,
                    !.eval = HandEvaluation(8, i, st.eval.second_highest_card)]
    ELSE IF rank_count[i] = 3
    THEN KindScan(rank_count, i + 1,
                  [st EXCEPT !.has_three = TRUE, !.eval.highest_card = i])
    ELSE IF rank_count[i] = 2
    THEN KindScan(rank_count, i + 1,
                  [st EXCEPT !.has_pair = TRUE,
                             !.eval.second_highest_card =
                                 IF st.eval.second_highest_card = -1
                                    \/ i > st.eval.second_highest_card
                                 THEN i ELSE st.eval.second_highest_card])
    ELSE KindScan(rank_count, i + 1, st)

\* lines 181-193: the scan from the highest rank down, counting consecutive
\* ranks that are present
RECURSIVE StraightScan(_, _, _, _)
StraightScan(rank_count, i, consecutive, eval) ==
    IF i < 0 THEN [ret |-> FALSE, eval |-> eval]
    ELSE IF rank_count[i] > 0
    THEN IF consecutive + 1 >= 5
         THEN [ret |-> TRUE,
               eval |-> HandEvaluation(4, i + 4, eval.second_highest_card)]
         ELSE StraightScan(rank_count, i - 1, consecutive + 1, eval)
    ELSE StraightScan(rank_count, i - 1, 0, eval)

\* lines 195-206: the scan counting the ranks held exactly twice
RECURSIVE PairScan(_, _, _, _)
PairScan(rank_count, i, pairs, eval) ==
    IF i >= NUM_RANKS THEN [pairs |-> pairs, eval |-> eval]
    ELSE IF rank_count[i] = 2
    THEN PairScan(rank_count, i + 1, pairs + 1,
                  IF eval.highest_card < i
                  THEN [eval EXCEPT !.second_highest_card = eval.highest_card,
                                    !.highest_card = i]
                  ELSE IF eval.second_highest_card < i
                  THEN [eval EXCEPT !.second_highest_card = i]
                  ELSE eval)
    ELSE PairScan(rank_count, i + 1, pairs, eval)

evaluate_hand(hand, community_cards, community_size) ==
    LET all_cards  == AllCards(hand, community_cards, community_size)
        rank_count == RankCount(all_cards)
        suit_count == SuitCount(all_cards)
        eval0      == HandEvaluation(0, SortedFirst(all_cards, HAND_SIZE + community_size, 0, all_cards[0]).rank, -1)
        kinds      == KindScan(rank_count, 0,
                               [ret |-> FALSE, has_three |-> FALSE,
                                has_pair |-> FALSE, eval |-> eval0])
        straight   == StraightScan(rank_count, NUM_RANKS - 1, 0, kinds.eval)
        pairscan   == PairScan(rank_count, 0, 0, kinds.eval)
    IN  IF HasFlush(suit_count)
        THEN [eval0 EXCEPT !.combination_level = 6]
        ELSE IF kinds.ret THEN kinds.eval
        ELSE IF kinds.has_three /\ kinds.has_pair
        THEN [kinds.eval EXCEPT !.combination_level = 7]
        ELSE IF kinds.has_three
        THEN [kinds.eval EXCEPT !.combination_level = 3]
        ELSE IF straight.ret THEN straight.eval
        ELSE IF pairscan.pairs >= 2
        THEN [pairscan.eval EXCEPT !.combination_level = 2]
        ELSE IF pairscan.pairs = 1
        THEN [pairscan.eval EXCEPT !.combination_level = 1]
        ELSE [pairscan.eval EXCEPT !.combination_level = 0]

\* ---------------------------------------------------------------------
\* rand, shuffle_deck, deal_cards
\* ---------------------------------------------------------------------
\* rand(): the generator srand(time(NULL)) seeded; a linear congruential
\* generator stands for the C library's. Returns the new generator state,
\* which is also the number rand() yields.
rand(state) == (state * 75 + 74) % 65537

\* shuffle_deck: for i = NUM_CARDS-1 down to 1, swap deck[i] and
\* deck[rand() % (i + 1)]. Returns the deck and the generator state.
RECURSIVE ShuffleFrom(_, _, _)
ShuffleFrom(d, i, state) ==
    IF i <= 0 THEN [deck |-> d, state |-> state]
    ELSE LET r == rand(state)
             jj == r % (i + 1)
         IN  ShuffleFrom([d EXCEPT ![i] = d[jj], ![jj] = d[i]], i - 1, r)

shuffle_deck(d, state) == ShuffleFrom(d, NUM_CARDS - 1, state)

\* deal_cards: size cards from deck[current_card] on
deal_cards(d, current, size) == [i \in 0..(size - 1) |-> d[current + i]]

\* ---------------------------------------------------------------------
\* is_hand_better
\* ---------------------------------------------------------------------
\* lines 231-251: the decision on the two evaluations. "fallback" is the
\* positional loop of lines 252-261; when both second_highest_card are
\* present and equal no branch returns and line 265 returns false.
DecideOnEvaluations(eval1, eval2) ==
    IF eval1.combination_level > eval2.combination_level THEN "true"
    ELSE IF eval1.combination_level < eval2.combination_level THEN "false"
    ELSE IF eval1.highest_card > eval2.highest_card THEN "true"
    ELSE IF eval1.highest_card < eval2.highest_card THEN "false"
    ELSE IF eval1.second_highest_card # -1 /\ eval2.second_highest_card # -1
    THEN IF eval1.second_highest_card > eval2.second_highest_card THEN "true"
         ELSE "false"
    ELSE IF eval1.second_highest_card # -1 THEN "true"
    ELSE IF eval2.second_highest_card # -1 THEN "false"
    ELSE "fallback"

\* the values a read beyond the end of an array, or of an array element
\* never assigned, may yield
Indeterminate == -1..1

\* community_cards[i].rank as line 253 reads it
CommunityRankRead(cc, cs, i) == IF i < cs THEN {cc[i].rank} ELSE Indeterminate

\* hand[i].rank as lines 256 and 258 read it
HandRankRead(h, i) == IF i < HAND_SIZE THEN {h[i].rank} ELSE Indeterminate

\* ---------------------------------------------------------------------
\* find_winning_opponent
\* ---------------------------------------------------------------------
\* the opponent is ahead and ties go to the opponent as well
Beats_ties(opponent_eval, player_eval) ==
    IF opponent_eval.combination_level > player_eval.combination_level
    THEN TRUE
    ELSE IF opponent_eval.combination_level = player_eval.combination_level
    THEN IF opponent_eval.highest_card > player_eval.highest_card
         THEN TRUE
         ELSE opponent_eval.highest_card = player_eval.highest_card
              /\ opponent_eval.second_highest_card >= player_eval.second_highest_card
    ELSE FALSE

\* lines 284-295: the conditions under which the loop records opponent i
Beats(opponent_eval, player_eval) ==
    IF opponent_eval.combination_level > player_eval.combination_level
    THEN TRUE
    ELSE IF opponent_eval.combination_level = player_eval.combination_level
    THEN IF opponent_eval.highest_card > player_eval.highest_card
         THEN TRUE
         ELSE opponent_eval.highest_card = player_eval.highest_card
              /\ opponent_eval.second_highest_card > player_eval.second_highest_card
    ELSE FALSE

\* lines 282-296: the loop over the opponents; st holds player_wins and
\* winning_opponent_index
RECURSIVE OpponentScan(_, _, _, _, _, _, _)
OpponentScan(player_eval, opponents, num_opponents, cc, cs, i, st) ==
    IF i >= num_opponents THEN st
    ELSE OpponentScan(player_eval, opponents, num_opponents, cc, cs, i + 1,
                      IF Beats(evaluate_hand(opponents[i], cc, cs), player_eval)
                      THEN [player_wins |-> FALSE, winning_opponent_index |-> i]
                      ELSE st)

find_winning_opponent(player_hand, opponents, num_opponents, cc, cs) ==
    LET st == OpponentScan(evaluate_hand(player_hand, cc, cs), opponents,
                           num_opponents, cc, cs, 0,
                           [player_wins |-> TRUE, winning_opponent_index |-> -1])
    IN  IF st.player_wins THEN -1 ELSE st.winning_opponent_index

\* ---------------------------------------------------------------------
\* calculate_win_probability, the pieces of one trial
\* ---------------------------------------------------------------------
\* lines 320-325: the rank of the deck element at index
\* rank * NUM_SUITS + suit becomes -1, for each hole card of the player and
\* each known community card
RECURSIVE MarkCards(_, _, _, _)
MarkCards(d, cards, n, jj) ==
    IF jj >= n THEN d
    ELSE MarkCards([d EXCEPT ![cards[jj].rank * NUM_SUITS + cards[jj].suit].rank = -1],
                   cards, n, jj + 1)

MarkUnavailable(d, player_hand, cc, cs) ==
    MarkCards(MarkCards(d, player_hand, HAND_SIZE, 0), cc, cs, 0)

DealAgain_inverted(card) == card.rank # -1

\* line 332: the do-while of the dealing loop goes round again
DealAgain(card) == card.rank = -1

WinPercentage_dividefirst(w, l, t) == (w \div (w + l + t)) * 100

\* line 344
WinPercentage(w, l, t) == (w * 100) \div (w + l + t)

\* ---------------------------------------------------------------------
\* State
\* ---------------------------------------------------------------------
VARIABLES
    pc,               \* position of the program
    hand,             \* the hand given to evaluate_hand
    community_cards,  \* the community cards on the table
    community_size,   \* how many of them are known
    eval,             \* the HandEvaluation evaluate_hand returned
    rand_state,       \* state of the random generator
    num_players,      \* number of players, main's input
    player_hands,     \* main's player_hands
    deck,             \* the deck of the current trial
    current_card,     \* the deck cursor of the current trial
    opponent_hands,   \* the opponent hands of the current trial
    k, j,             \* the opponent and the slot being dealt
    trial,            \* the trial counter i of calculate_win_probability
    wins, losses, ties,
    winning_opponent_index,  \* the result of the latest find_winning_opponent
    win_probability,  \* the result of calculate_win_probability
    hand2,            \* the second hand given to is_hand_better
    eval2,            \* its evaluation
    idx,              \* the index i of the positional loop of is_hand_better
    call,             \* which call is running: "AB" (hand, hand2) or "BA"
    better_ab,        \* what is_hand_better(hand, hand2, ...) returned
    better_ba         \* what is_hand_better(hand2, hand, ...) returned

evalVars == <<hand, community_cards, community_size, eval>>
simVars  == <<rand_state, num_players, player_hands, deck, current_card,
              opponent_hands, k, j, trial, wins, losses, ties,
              winning_opponent_index, win_probability>>
cmpVars  == <<hand2, eval2, idx, call, better_ab, better_ba>>
vars == <<pc, evalVars, simVars, cmpVars>>

NoHand == [i \in 0..(HAND_SIZE - 1) |-> Card(-2, -2)]

\* the variables of the simulator before any call of it
SimIdle ==
    /\ rand_state = 0
    /\ num_players = 0
    /\ player_hands = <<>>
    /\ deck = <<>>
    /\ current_card = 0
    /\ opponent_hands = <<>>
    /\ k = 0
    /\ j = 0
    /\ trial = 0
    /\ wins = 0
    /\ losses = 0
    /\ ties = 0
    /\ winning_opponent_index = -2
    /\ win_probability = -1

\* the variables of the comparator before any call of it
CmpIdle ==
    /\ hand2 = [i \in 0..(HAND_SIZE - 1) |-> Card(-2, -2)]
    /\ eval2 = HandEvaluation(-2, -2, -2)
    /\ idx = 0
    /\ call = "none"
    /\ better_ab = "none"
    /\ better_ba = "none"

NoEval == HandEvaluation(-2, -2, -2)

\* ---------------------------------------------------------------------
\* The evaluator applied to every hand of 2 to 7 cards of ranks 0..MaxRank.
\* evaluate_hand reads its cards through all_cards, rank_count and
\* suit_count only, so each set of cards is dealt once, in deck order.
\* ---------------------------------------------------------------------
EvalPool == {c \in 0..(NUM_CARDS - 1) : c \div NUM_SUITS <= MaxRank}

\* the index of the last card dealt so far, -1 when none
LastDealt ==
    IF community_size > 0 THEN CardIndex(community_cards[community_size - 1])
    ELSE IF hand[1] # NoCard THEN CardIndex(hand[1])
    ELSE IF hand[0] # NoCard THEN CardIndex(hand[0])
    ELSE -1

EvalInit ==
    /\ pc = "deal"
    /\ hand = [i \in 0..(HAND_SIZE - 1) |-> NoCard]
    /\ community_cards = [i \in 0..(FLOP_SIZE + TURN_RIVER_SIZE * 2 - 1) |-> NoCard]
    /\ community_size = 0
    /\ eval = NoEval
    /\ SimIdle
    /\ CmpIdle

EvalDealHole ==
    /\ pc = "deal"
    /\ hand[HAND_SIZE - 1] = NoCard
    /\ \E c \in EvalPool :
         /\ c > LastDealt
         /\ hand' = IF hand[0] = NoCard
                    THEN [hand EXCEPT ![0] = initialize_deck[c]]
                    ELSE [hand EXCEPT ![1] = initialize_deck[c]]
    /\ UNCHANGED <<pc, community_cards, community_size, eval, simVars, cmpVars>>

EvalDealCommunity ==
    /\ pc = "deal"
    /\ hand[HAND_SIZE - 1] # NoCard
    /\ community_size < FLOP_SIZE + TURN_RIVER_SIZE * 2
    /\ \E c \in EvalPool :
         /\ c > LastDealt
         /\ community_cards' = [community_cards EXCEPT ![community_size] = initialize_deck[c]]
    /\ community_size' = community_size + 1
    /\ UNCHANGED <<pc, hand, eval, simVars, cmpVars>>

EvalCall ==
    /\ pc = "deal"
    /\ hand[HAND_SIZE - 1] # NoCard
    /\ eval' = evaluate_hand(hand, community_cards, community_size)
    /\ pc' = "evaluated"
    /\ UNCHANGED <<hand, community_cards, community_size, simVars, cmpVars>>

EvalNext == EvalDealHole \/ EvalDealCommunity \/ EvalCall

SpecEval == EvalInit /\ [][EvalNext]_vars

\* ---------------------------------------------------------------------
\* The simulator: main seeds the generator, shuffles, deals the hole cards
\* and the community cards, and calls calculate_win_probability with the
\* first community_size community cards; at the river it then looks for
\* the winner among the players' hands.
\* ---------------------------------------------------------------------
BoardSize == FLOP_SIZE + TURN_RIVER_SIZE * 2

\* what a read beyond the end of the deck array may yield
BeyondDeck == {Card(r, s) : r \in -1..(NUM_RANKS - 1), s \in 0..(NUM_SUITS - 1)}

SimInit ==
    \E seed \in 0..MaxSeed, n \in 2..6, cs \in 0..BoardSize :
        LET sh    == shuffle_deck(initialize_deck, seed)
            hands == [p \in 0..(n - 1) |-> deal_cards(sh.deck, p * HAND_SIZE, HAND_SIZE)]
            board == deal_cards(sh.deck, n * HAND_SIZE, BoardSize)
        IN  /\ pc = "trial"
            /\ rand_state = sh.state
            /\ num_players = n
            /\ player_hands = hands
            /\ hand = hands[0]
            /\ community_cards = [i \in 0..(BoardSize - 1) |->
                                    IF i < cs THEN board[i] ELSE NoCard]
            /\ community_size = cs
            /\ eval = NoEval
            /\ deck = initialize_deck
            /\ current_card = 0
            /\ opponent_hands = [o \in 0..(n - 2) |-> NoHand]
            /\ k = 0
            /\ j = 0
            /\ trial = 0
            /\ wins = 0
            /\ losses = 0
            /\ ties = 0
            /\ winning_opponent_index = -2
            /\ win_probability = -1
            /\ CmpIdle

\* lines 315-325: a trial starts with a fresh shuffled deck in which the
\* cards in play are marked
SimTrialStart ==
    /\ pc = "trial"
    /\ trial < MaxTrials
    /\ LET sh == shuffle_deck(initialize_deck, rand_state)
       IN  /\ deck' = MarkUnavailable(sh.deck, hand, community_cards, community_size)
           /\ rand_state' = sh.state
    /\ current_card' = 0
    /\ k' = 0
    /\ j' = 0
    /\ pc' = "deal"
    /\ UNCHANGED <<cmpVars, evalVars, num_players, player_hands, opponent_hands, trial,
                   wins, losses, ties, winning_opponent_index, win_probability>>

\* lines 327-334: one round of the do-while that fills slot j of opponent k
SimDealRead ==
    /\ pc = "deal"
    /\ \E card \in (IF current_card < NUM_CARDS THEN {deck[current_card]} ELSE BeyondDeck) :
         /\ opponent_hands' = [opponent_hands EXCEPT ![k][j] = card]
         /\ current_card' = current_card + 1
         /\ IF DealAgain(card)
            THEN UNCHANGED <<k, j, pc>>
            ELSE IF j + 1 < HAND_SIZE
            THEN j' = j + 1 /\ UNCHANGED <<k, pc>>
            ELSE /\ j' = 0
                 /\ k' = k + 1
                 /\ pc' = IF k + 1 < num_players - 1 THEN "deal" ELSE "find"
    /\ UNCHANGED <<cmpVars, evalVars, rand_state, num_players, player_hands, deck, trial,
                   wins, losses, ties, winning_opponent_index, win_probability>>

\* lines 336-341: the winner of the trial is found and counted
SimFindWinner ==
    /\ pc = "find"
    /\ LET w == find_winning_opponent(hand, opponent_hands, num_players - 1,
                                      community_cards, community_size)
       IN  /\ winning_opponent_index' = w
           /\ wins' = IF w = -1 THEN wins + 1 ELSE wins
           /\ losses' = IF w = -1 THEN losses ELSE losses + 1
    /\ trial' = trial + 1
    /\ pc' = "trial"
    /\ UNCHANGED <<cmpVars, evalVars, rand_state, num_players, player_hands, deck,
                   current_card, opponent_hands, k, j, ties, win_probability>>

\* line 344: after the last trial
SimReturn ==
    /\ pc = "trial"
    /\ trial >= MaxTrials
    /\ win_probability' = WinPercentage(wins, losses, ties)
    /\ pc' = "returned"
    /\ UNCHANGED <<cmpVars, evalVars, rand_state, num_players, player_hands, deck,
                   current_card, opponent_hands, k, j, trial, wins, losses, ties,
                   winning_opponent_index>>

\* main, lines 453-458: at the river the other players' hands are the
\* opponents of find_winning_opponent
SimShowdown ==
    /\ pc = "returned"
    /\ community_size = BoardSize
    /\ opponent_hands' = [o \in 0..(num_players - 2) |-> player_hands[o + 1]]
    /\ winning_opponent_index' =
           find_winning_opponent(player_hands[0], opponent_hands', num_players - 1,
                                 community_cards, BoardSize)
    /\ pc' = "done"
    /\ UNCHANGED <<cmpVars, evalVars, rand_state, num_players, player_hands, deck,
                   current_card, k, j, trial, wins, losses, ties, win_probability>>

Next == SimTrialStart \/ SimDealRead \/ SimFindWinner \/ SimReturn \/ SimShowdown

Spec == SimInit /\ [][Next]_vars

\* ---------------------------------------------------------------------
\* The comparator called twice on the same table: is_hand_better(A, B)
\* and then is_hand_better(B, A), with A = hand and B = hand2.
\* ---------------------------------------------------------------------
CmpPool == 0..MaxCmpCard

\* the cards of S as an array in deck order
InDeckOrder(S) ==
    [i \in 0..(Cardinality(S) - 1) |->
        initialize_deck[CHOOSE c \in S : Cardinality({d \in S : d < c}) = i]]

CmpInit ==
    \E a0 \in CmpPool, a1 \in CmpPool, b0 \in CmpPool, b1 \in CmpPool :
      /\ Cardinality({a0, a1, b0, b1}) = 4
      /\ \E S \in SUBSET (CmpPool \ {a0, a1, b0, b1}) :
           /\ Cardinality(S) <= BoardSize
           /\ community_size = Cardinality(S)
           /\ community_cards = [i \in 0..(BoardSize - 1) |->
                                   IF i < Cardinality(S) THEN InDeckOrder(S)[i] ELSE NoCard]
      /\ hand = [i \in 0..(HAND_SIZE - 1) |-> initialize_deck[IF i = 0 THEN a0 ELSE a1]]
      /\ hand2 = [i \in 0..(HAND_SIZE - 1) |-> initialize_deck[IF i = 0 THEN b0 ELSE b1]]
      /\ pc = "call"
      /\ call = "AB"
      /\ eval = NoEval
      /\ eval2 = NoEval
      /\ idx = 0
      /\ better_ab = "none"
      /\ better_ba = "none"
      /\ SimIdle

\* the arguments hand1 and hand2 of the running call
Hand1 == IF call = "AB" THEN hand ELSE hand2
Hand2 == IF call = "AB" THEN hand2 ELSE hand

\* the running call returns r; the second call follows the first
CmpReturns(r) ==
    IF call = "AB"
    THEN /\ better_ab' = r
         /\ call' = "BA"
         /\ pc' = "call"
         /\ UNCHANGED better_ba
    ELSE /\ better_ba' = r
         /\ pc' = "compared"
         /\ UNCHANGED <<call, better_ab>>

\* lines 228-251
CmpDecide ==
    /\ pc = "call"
    /\ LET eval1 == evaluate_hand(Hand1, community_cards, community_size)
           evalB == evaluate_hand(Hand2, community_cards, community_size)
           d     == DecideOnEvaluations(eval1, evalB)
       IN  /\ eval' = eval1
           /\ eval2' = evalB
           /\ IF d = "fallback"
              THEN /\ idx' = HAND_SIZE + community_size - 1
                   /\ pc' = "fallback"
                   /\ UNCHANGED <<call, better_ab, better_ba>>
              ELSE /\ CmpReturns(d)
                   /\ UNCHANGED idx
    /\ UNCHANGED <<hand, hand2, community_cards, community_size, simVars>>

\* lines 252-261: one round of the positional loop
CmpFallbackStep ==
    /\ pc = "fallback"
    /\ idx >= 0
    /\ \E c \in CommunityRankRead(community_cards, community_size, idx),
          r1 \in HandRankRead(Hand1, idx), r2 \in HandRankRead(Hand2, idx) :
         IF c = -1
         THEN idx' = idx - 1 /\ UNCHANGED <<pc, call, better_ab, better_ba>>
         ELSE IF r1 > r2 THEN CmpReturns("true") /\ UNCHANGED idx
         ELSE IF r1 < r2 THEN CmpReturns("false") /\ UNCHANGED idx
         ELSE idx' = idx - 1 /\ UNCHANGED <<pc, call, better_ab, better_ba>>
    /\ UNCHANGED <<evalVars, eval2, hand2, simVars>>

\* line 265: the loop ran out
CmpFallbackEnd ==
    /\ pc = "fallback"
    /\ idx < 0
    /\ CmpReturns("false")
    /\ UNCHANGED <<evalVars, eval2, hand2, idx, simVars>>

\* line 253 with no community array (main passes NULL with community_size
\* 0): the read of community_cards[i] stops the program
CmpFault ==
    /\ pc = "fallback"
    /\ idx >= 0
    /\ community_size = 0
    /\ pc' = "fault"
    /\ UNCHANGED <<evalVars, simVars, cmpVars>>

CmpNext == CmpDecide \/ CmpFallbackStep \/ CmpFallbackEnd \/ CmpFault

SpecCmp == CmpInit /\ [][CmpNext]_vars

\* ---------------------------------------------------------------------
\* Properties of the evaluator (SpecEval)
\* ---------------------------------------------------------------------
\* the cards evaluate_hand was given
InputCards == {hand[i] : i \in 0..(HAND_SIZE - 1)}
                \cup {community_cards[i] : i \in 0..(community_size - 1)}

TimesHeld(r) == Cardinality({c \in InputCards : c.rank = r})
SuitHeld(s)  == Cardinality({c \in InputCards : c.suit = s})
AllRanks     == 0..(NUM_RANKS - 1)
PairedRanks  == {r \in AllRanks : TimesHeld(r) = 2}
Highest(S)   == CHOOSE r \in S : \A q \in S : q <= r

\* C4: a hand classified one pair (1) or two pair (2) carries as
\* highest_card the highest rank that occurs exactly twice among its cards.
C4_PairPrimaryRank ==
    (pc = "evaluated" /\ eval.combination_level \in {1, 2})
        => (PairedRanks # {} /\ eval.highest_card = Highest(PairedRanks))

\* C5: second_highest_card is -1 unless the level is two pair (2) or
\* full house (7).
C5_SecondAbsent ==
    (pc = "evaluated" /\ eval.combination_level \notin {2, 7})
        => eval.second_highest_card = -1

\* C6: level 8 is returned exactly when some rank occurs four times; every
\* other hand gets a lower level.
C6_FourOfAKindExactly ==
    pc = "evaluated" =>
        /\ eval.combination_level = 8 <=> (\E r \in AllRanks : TimesHeld(r) = 4)
        /\ eval.combination_level <= 8

\* a seven-card hand with four of a kind and four cards of one suit
C6_Witness ==
    /\ pc = "evaluated"
    /\ community_size = 5
    /\ \E r \in AllRanks : TimesHeld(r) = 4
    /\ \E s \in 0..(NUM_SUITS - 1) : SuitHeld(s) = 4
    /\ eval.combination_level = 8

\* C10: five consecutive ranks with no flush, no full house and no four of
\* a kind are classified as a straight (4), also when a rank occurs thrice.
HoldsStraight == \E r \in 0..(NUM_RANKS - 5) : \A d \in 0..4 : TimesHeld(r + d) > 0
HoldsFlush    == \E s \in 0..(NUM_SUITS - 1) : SuitHeld(s) >= 5
HoldsFour     == \E r \in AllRanks : TimesHeld(r) = 4
HoldsFullHouse ==
    \E r \in AllRanks : TimesHeld(r) = 3 /\ \E q \in AllRanks \ {r} : TimesHeld(q) >= 2

C10_StraightLevel ==
    (pc = "evaluated" /\ HoldsStraight /\ ~HoldsFlush /\ ~HoldsFullHouse /\ ~HoldsFour)
        => eval.combination_level = 4

\* ---------------------------------------------------------------------
\* Properties of the simulator and of find_winning_opponent (Spec)
\* ---------------------------------------------------------------------
Opponents == 0..(num_players - 2)
Slots     == 0..(HAND_SIZE - 1)
KnownCards == {hand[i] : i \in Slots} \cup {community_cards[i] : i \in 0..(community_size - 1)}

\* the cards of the 52 that no element of the trial's deck shows any more
MarkedCards ==
    {initialize_deck[c] : c \in {c \in 0..(NUM_CARDS - 1) :
                                   \A i \in 0..(NUM_CARDS - 1) : deck[i] # initialize_deck[c]}}

\* C1: in every trial the cards marked unavailable are the player's hole
\* cards and the known community cards, so no card dealt to an opponent is
\* one of them.
C1_OpponentsAvoidKnownCards ==
    /\ pc \in {"deal", "find"} => MarkedCards = KnownCards
    /\ pc = "find" => \A o \in Opponents, s \in Slots : opponent_hands[o][s] \notin KnownCards

\* find_winning_opponent has returned and its arguments are still in place
Found == pc \in {"trial", "returned", "done"} /\ winning_opponent_index # -2

PlayerEval  == evaluate_hand(hand, community_cards, community_size)
OppEval(o)  == evaluate_hand(opponent_hands[o], community_cards, community_size)
\* the evaluation as one number: level first, then highest_card, then
\* second_highest_card, the absent -1 below every rank
Strength(e) == (e.combination_level * (NUM_RANKS + 1) + (e.highest_card + 1))
                   * (NUM_RANKS + 1) + (e.second_highest_card + 1)

\* C2: when some opponent beats the player, the index returned is that of
\* the best opponent: no other opponent's triple is lexicographically
\* greater.
C2_BestOpponent ==
    (Found /\ \E o \in Opponents : Strength(OppEval(o)) > Strength(PlayerEval))
        => /\ winning_opponent_index \in Opponents
           /\ \A o \in Opponents :
                  Strength(OppEval(o)) <= Strength(OppEval(winning_opponent_index))

\* C3: -1 is returned exactly when no opponent's triple is greater than the
\* player's; otherwise the index of an opponent whose triple is greater.
C3_PlayerWinsIff ==
    Found =>
        /\ winning_opponent_index = -1
              <=> (\A o \in Opponents : Strength(OppEval(o)) <= Strength(PlayerEval))
        /\ winning_opponent_index # -1
              => /\ winning_opponent_index \in Opponents
                 /\ Strength(OppEval(winning_opponent_index)) > Strength(PlayerEval)

\* both outcomes with an opponent level with the player on the first two keys
C3_Witness ==
    /\ Found
    /\ winning_opponent_index = -1
    /\ \E o \in Opponents : Strength(OppEval(o)) = Strength(PlayerEval)

\* C8: the simulator returns floor(100 * wins / (wins + losses + ties)), a
\* number in 0..100, and never divides by zero.
C8_PercentageBounds ==
    /\ (pc = "trial" /\ trial >= MaxTrials) => wins + losses + ties # 0
    /\ pc \in {"returned", "done"} =>
          LET total == wins + losses + ties
          IN  /\ total > 0
              /\ win_probability \in 0..100
              /\ win_probability * total <= 100 * wins
              /\ 100 * wins < (win_probability + 1) * total

\* a call that has returned with wins and losses both counted
C8_Witness ==
    /\ pc = "returned"
    /\ wins > 0
    /\ losses > 0
    /\ community_size \in {0, 3, 4, 5}

\* C9: the dealing loop never reads the deck at an index of 52 or more and
\* leaves every opponent slot with a card whose rank is not -1.
C9_NoDeckExhaustion ==
    /\ pc = "deal" => current_card < NUM_CARDS
    /\ pc = "find" =>
          /\ current_card <= NUM_CARDS
          /\ \A o \in Opponents, s \in Slots :
                 opponent_hands[o][s].rank \in 0..(NUM_RANKS - 1)

\* five opponents, a full board, and marked cards skipped on the way
C9_Witness ==
    /\ pc = "find"
    /\ num_players = 6
    /\ community_size = BoardSize
    /\ current_card > (num_players - 1) * HAND_SIZE

LoopReads == pc = "fallback" /\ idx >= 0

\* C11: every array read of the positional loop is in bounds: the index
\* used for community_cards lies in 0..community_size-1 and the index used
\* for hand1 and hand2 lies in 0..HAND_SIZE-1.
C11_ReadsInBounds ==
    LoopReads =>
        /\ idx \in 0..(community_size - 1)
        /\ idx \in 0..(HAND_SIZE - 1)

====
